---- MODULE Spec2Model ----
(***************************************************************************)
(* Colorlight 5A-75B targets of litex-boards:                              *)
(*   "soc"    = litex_boards/targets/colorlight_5a_75b.py                  *)
(*   "no_soc" = litex_boards/targets/colorlight_5a_75b_no_soc.py           *)
(* One invocation of a target script is modelled statement by statement    *)
(* (main, load, flash, sim, openocd_run_svf), the constructors of the SoC  *)
(* classes as one elaboration pass each, and the reset synchroniser of     *)
(* the two _CRG variants as a small clocked circuit.                       *)
(***************************************************************************)
EXTENDS Integers, Sequences, FiniteSets

VARIABLES
    target,       \* which script is run: "soc" or "no_soc"
    args,         \* the parsed command line (argparse namespace)
    prog,         \* the statements main() executes for these args
    pc,           \* index of the next statement of prog
    exitst,       \* "running", "returned", "exit", "AssertionError", "ResourceUnavailable"
    modules,      \* modules instantiated so far, in order
    requests,     \* platform.request(name, number) calls so far, as <<name, index>>
    periods,      \* platform.add_period_constraint calls so far (clock names)
    false_paths,  \* platform.add_false_path_constraints calls so far (tuples of clocks)
    wb_masters,   \* add_wb_master calls so far
    acts,         \* controller actions started so far: "Load", "Flash", "Sim", "Build"
    shell,        \* what the process did so far, in order: calls, constructors,
                  \* file operations, os.system calls, builds
    cfg,          \* state of ./openocd.cfg
    files,        \* the other files that exist
    run,          \* number of the current invocation
    prev,         \* outcome of the previous invocation with the same command line
    crg,          \* the _CRG variant whose circuit is simulated
    locked,       \* pll.locked
    rst_n,        \* the user_btn_n pad (active low)
    ff,           \* the two flip-flops of AsyncResetSynchronizer; ff[2] drives cd_sys.rst
    led_counter   \* the status blinker's counter, in the sys domain

procvars == <<target, args, prog, pc, exitst, modules, requests, periods,
              false_paths, wb_masters, acts, shell, cfg, files, run, prev>>
hwvars   == <<crg, locked, rst_n, ff, led_counter>>
vars     == <<target, args, prog, pc, exitst, modules, requests, periods,
              false_paths, wb_masters, acts, shell, cfg, files, run, prev,
              crg, locked, rst_n, ff, led_counter>>

\* ---------------------------------------------------------------- bounds
\* How often the same command line is run.
MaxRuns == 2
\* Width of the blinker's counter (Signal(32) in the source, narrowed here;
\* the counter wraps at 2^width either way).
LedCounterBits == 4

\* --eth-phy: "Ethernet PHY 0 or 1"
NumEthPhys == 2

None == -1

Range(s) == {s[i] : i \in 1..Len(s)}

RECURSIVE Pow2(_)
Pow2(n) == IF n = 0 THEN 1 ELSE 2 * Pow2(n - 1)

\* ------------------------------------------------------------ elaboration
\* What a constructor does to the platform and the SoC, in source order.
Mod(n)        == [kind |-> "module",     v |-> <<n>>]
Req(n, i)     == [kind |-> "request",    v |-> <<n, i>>]
Period(c)     == [kind |-> "period",     v |-> <<c>>]
FalsePath(cs) == [kind |-> "false_path", v |-> cs]
WbMaster(b)   == [kind |-> "wb_master",  v |-> <<b>>]

\* platform.request(name, number): number None takes the first index of that
\* name not yet handed out; a pair already handed out is refused.
request(claimed, name, number) ==
    IF number # None THEN number
    ELSE CHOOSE i \in 0..Len(claimed) :
            /\ <<name, i>> \notin Range(claimed)
            /\ \A j \in 0..(i - 1) : <<name, j>> \in Range(claimed)

\* Faulty variant of _led: the pad j1 0 is requested for two outputs.
led_soc_repeated_pad ==
    << Mod("_led"), Req("j1", 0), Req("j1", 0), Req("j1", 2) >>

\* colorlight_5a_75b.py: class _led
led_soc ==
    << Mod("_led"), Req("j1", 0), Req("j1", 1), Req("j1", 2) >>

\* colorlight_5a_75b.py: class _CRG.  The reset of cd_sys is ~pll.locked.
CRG_soc_reset == {"pll.locked"}

CRG_soc ==
    << Mod("_CRG"), Req("clk25", None), Period("clk25"), Mod("ECP5PLL"),
       Mod("AsyncResetSynchronizer"), Req("sdram_clock", None) >>

\* colorlight_5a_75b.py: the SDR SDRAM block of BaseSoC.__init__
sdram_soc(a) ==
    IF a.integrated_main_ram THEN << >>
    ELSE << Req("sdram", None), Mod("GENSDRPHY"), Mod("sdram") >>

\* SoCCore.add_ethernet / SoCCore.add_etherbone: the network stack on a PHY,
\* its two period constraints and the false paths to the system clock; the
\* Etherbone bridge also registers its bus as a master.
add_ethernet ==
    << Mod("ethmac"), Period("eth_rx"), Period("eth_tx"),
       FalsePath(<<"sys", "eth_rx", "eth_tx">>) >>

add_etherbone ==
    << Mod("LiteEthUDPIPCore"), Mod("LiteEthEtherbone"),
       WbMaster("etherbone.wishbone.bus"),
       Period("eth_rx"), Period("eth_tx"),
       FalsePath(<<"sys", "eth_rx", "eth_tx">>) >>

\* colorlight_5a_75b.py: the Ethernet and Etherbone blocks of BaseSoC.__init__
ethernet_soc(a) ==
    IF a.with_ethernet
    THEN << Req("eth_clocks", None), Req("eth", None), Mod("LiteEthPHYRGMII") >>
         \o add_ethernet
    ELSE << >>

etherbone_soc(a) ==
    IF a.with_etherbone
    THEN << Req("eth_clocks", None), Req("eth", None), Mod("LiteEthPHYRGMII") >>
         \o add_etherbone
    ELSE << >>

\* colorlight_5a_75b.py: BaseSoC.__init__
BaseSoC_soc(a) ==
    << Mod("Platform"), Mod("SoCCore") >> \o CRG_soc \o led_soc
    \o sdram_soc(a) \o ethernet_soc(a) \o etherbone_soc(a)

\* colorlight_5a_75b_no_soc.py: class _LED
LED_nosoc ==
    << Mod("_LED"), Req("user_led_n", 0), Req("hub75", 0) >>

\* Faulty variant of the no_soc _CRG: pll.locked left out of the reset.
CRG_nosoc_reset_button_only == {"rst_n"}

\* colorlight_5a_75b_no_soc.py: class _CRG.  The reset of cd_sys is
\* ~pll.locked | ~rst_n.
CRG_nosoc_reset == {"pll.locked", "rst_n"}

CRG_nosoc ==
    << Mod("_CRG"), Req("clk25", None), Req("user_btn_n", 0), Period("clk25"),
       Mod("ECP5PLL"), Mod("AsyncResetSynchronizer") >>

\* colorlight_5a_75b_no_soc.py: BaseSoC.__init__
BaseSoC_nosoc ==
    << Mod("Platform"), Mod("SoCCore") >> \o CRG_nosoc \o LED_nosoc

\* Faulty variant of EtherboneSoC: the eth_tx period constraint is left out.
EtherboneSoC_no_tx_period(a) ==
    BaseSoC_nosoc
    \o << Req("eth_clocks", a.eth_phy), Req("eth", a.eth_phy),
          Mod("LiteEthPHYRGMII"), Mod("LiteEthUDPIPCore"), Mod("LiteEthEtherbone"),
          WbMaster("etherbone.wishbone.bus"),
          Period("eth_rx"),
          FalsePath(<<"sys", "eth_rx", "eth_tx">>) >>

\* Faulty variant of EtherboneSoC: the bridge's bus is not registered.
EtherboneSoC_no_master(a) ==
    BaseSoC_nosoc
    \o << Req("eth_clocks", a.eth_phy), Req("eth", a.eth_phy),
          Mod("LiteEthPHYRGMII"), Mod("LiteEthUDPIPCore"), Mod("LiteEthEtherbone"),
          Period("eth_rx"), Period("eth_tx"),
          FalsePath(<<"sys", "eth_rx", "eth_tx">>) >>

\* colorlight_5a_75b_no_soc.py: EtherboneSoC.__init__
EtherboneSoC(a) ==
    BaseSoC_nosoc
    \o << Req("eth_clocks", a.eth_phy), Req("eth", a.eth_phy),
          Mod("LiteEthPHYRGMII"), Mod("LiteEthUDPIPCore"), Mod("LiteEthEtherbone"),
          WbMaster("etherbone.wishbone.bus"),
          Period("eth_rx"), Period("eth_tx"),
          FalsePath(<<"sys", "eth_rx", "eth_tx">>) >>

\* The state a constructor works on.
Elab0 ==
    [modules |-> << >>, requests |-> << >>, periods |-> << >>,
     false_paths |-> << >>, wb_masters |-> << >>, error |-> "none"]

ElabStep(it, st) ==
    CASE it.kind = "module"     -> [st EXCEPT !.modules = Append(@, it.v[1])]
      [] it.kind = "period"     -> [st EXCEPT !.periods = Append(@, it.v[1])]
      [] it.kind = "false_path" -> [st EXCEPT !.false_paths = Append(@, it.v)]
      [] it.kind = "wb_master"  -> [st EXCEPT !.wb_masters = Append(@, it.v[1])]
      [] it.kind = "request"    ->
            LET r == <<it.v[1], request(st.requests, it.v[1], it.v[2])>>
            IN  [st EXCEPT !.requests = Append(@, r),
                           !.error = IF r \in Range(st.requests)
                                     THEN "ResourceUnavailable" ELSE @]

\* Runs the items in order; an exception ends the constructor.
RECURSIVE Elaborate(_, _)
Elaborate(items, st) ==
    IF items = << >> \/ st.error # "none" THEN st
    ELSE Elaborate(Tail(items), ElabStep(Head(items), st))

\* -------------------------------------------------------------- programs
\* A statement of a script: an operation and its argument.
S(op, arg) == [op |-> op, arg |-> arg]

SvfBaseSoC   == "soc_basesoc_colorlight_5a_75b/gateware/top.svf"
BitBaseSoC   == "soc_basesoc_colorlight_5a_75b/gateware/top.bit"
FlashBaseSoC == "soc_basesoc_colorlight_5a_75b/gateware/top.svf.flash"
ScriptCopy   == "soc_basesoc_colorlight_5a_75b/gateware/bit_to_flash.py"
SvfEtherbone == "soc_etherbonesoc_colorlight_5a_75b/gateware/top.svf"
SvfBaseNoSoc == "soc_basesoc_colorlight_5a_75b/gateware/top.svf"
SvfNoSoC     == "build/top.svf"

\* Faulty variant of openocd_run_svf: the file is closed after the programmer ran.
openocd_run_svf_late_close(filename) ==
    << S("open", "openocd.cfg"), S("write", "openocd.cfg"),
       S("openocd", filename), S("close", "openocd.cfg"), S("rm", "openocd.cfg") >>

\* Faulty variant of openocd_run_svf: the file is not removed.
openocd_run_svf_no_rm(filename) ==
    << S("open", "openocd.cfg"), S("write", "openocd.cfg"), S("close", "openocd.cfg"),
       S("openocd", filename) >>

\* colorlight_5a_75b.py: openocd_run_svf(filename)
openocd_run_svf(filename) ==
    << S("open", "openocd.cfg"), S("write", "openocd.cfg"), S("close", "openocd.cfg"),
       S("openocd", filename), S("rm", "openocd.cfg") >>

\* colorlight_5a_75b.py: load()
load_soc == openocd_run_svf(SvfBaseSoC)

\* colorlight_5a_75b.py: flash()
flash_soc ==
    << S("cp", "bit_to_flash.py"), S("bit_to_flash", FlashBaseSoC) >>
    \o openocd_run_svf(FlashBaseSoC)

\* colorlight_5a_75b.py and colorlight_5a_75b_no_soc.py: sim()
sim == << S("print", "sim"), S("exit", "") >>

\* Faulty variant of the no_soc load(): no exit() at its end.
load_nosoc_falls_through ==
    << S("open", "openocd.cfg"), S("write", "openocd.cfg"), S("close", "openocd.cfg"),
       S("openocd", SvfEtherbone) >>

\* colorlight_5a_75b_no_soc.py: load()
load_nosoc ==
    << S("open", "openocd.cfg"), S("write", "openocd.cfg"), S("close", "openocd.cfg"),
       S("openocd", SvfEtherbone), S("exit", "") >>

\* Faulty variant of main(): the assert is missing.
assert_main_dropped(a) == TRUE

\* colorlight_5a_75b.py: the assert of main()
assert_main(a) == ~(a.with_ethernet /\ a.with_etherbone)

\* colorlight_5a_75b.py: main(), the statements it runs for the arguments a
main_soc(a) ==
    << S("assert", ""), S("construct", "BaseSoC") >>
    \o (IF a.load  THEN << S("call", "Load") >>  \o load_soc  ELSE << >>)
    \o (IF a.flash THEN << S("call", "Flash") >> \o flash_soc ELSE << >>)
    \o (IF a.sim   THEN << S("call", "Sim") >>   \o sim       ELSE << >>)

\* Faulty variant of the --no-soc branch: no exit() at its end.
no_soc_branch_no_exit ==
    << S("construct", "Platform"), S("construct", "_LED"),
       S("platform.build", SvfNoSoC) >>

\* colorlight_5a_75b_no_soc.py: the --no-soc branch of main()
no_soc_branch ==
    << S("construct", "Platform"), S("construct", "_LED"),
       S("platform.build", SvfNoSoC), S("exit", "") >>

\* colorlight_5a_75b_no_soc.py: main(), the statements it runs for the arguments a
main_nosoc(a) ==
    (IF a.load THEN << S("call", "Load") >> \o load_nosoc ELSE << >>)
    \o (IF a.sim THEN << S("call", "Sim") >> \o sim ELSE << >>)
    \o (IF a.no_soc THEN no_soc_branch ELSE << >>)
    \o (IF a.with_etherbone
        THEN << S("construct", "EtherboneSoC"), S("Builder.build", SvfEtherbone) >>
        ELSE << S("construct", "BaseSoC"), S("Builder.build", SvfBaseNoSoc) >>)

Main(t, a) == IF t = "soc" THEN main_soc(a) ELSE main_nosoc(a)

\* What the constructor named c elaborates in script t.
Items(t, c, a) ==
    CASE c = "Platform"     -> << Mod("Platform") >>
      [] c = "_LED"         -> LED_nosoc
      [] c = "EtherboneSoC" -> EtherboneSoC(a)
      [] c = "BaseSoC"      -> IF t = "soc" THEN BaseSoC_soc(a) ELSE BaseSoC_nosoc

\* ------------------------------------------------------------ invocation
Targets == {"soc", "no_soc"}

\* argparse: the soc script has no --no-soc, the no_soc script has no
\* --with-ethernet and no --flash; --eth-phy is read by the no_soc script only.
Args(t) ==
    IF t = "soc"
    THEN [with_ethernet : BOOLEAN, with_etherbone : BOOLEAN, eth_phy : {0},
          load : BOOLEAN, flash : BOOLEAN, sim : BOOLEAN, no_soc : {FALSE},
          integrated_main_ram : BOOLEAN]
    ELSE [with_ethernet : {FALSE}, with_etherbone : BOOLEAN,
          eth_phy : 0..(NumEthPhys - 1),
          load : BOOLEAN, flash : {FALSE}, sim : BOOLEAN, no_soc : BOOLEAN,
          integrated_main_ram : BOOLEAN]

\* Files left by earlier builds.
Artefacts == {SvfBaseSoC, BitBaseSoC, SvfEtherbone, "bit_to_flash.py"}

NoOutcome ==
    [exitst |-> "none", modules |-> << >>, requests |-> << >>, periods |-> << >>,
     false_paths |-> << >>, wb_masters |-> << >>, acts |-> << >>]

Outcome ==
    [exitst |-> exitst, modules |-> modules, requests |-> requests,
     periods |-> periods, false_paths |-> false_paths, wb_masters |-> wb_masters,
     acts |-> acts]

Idle ==
    /\ crg = "soc" /\ locked = FALSE /\ rst_n = TRUE
    /\ ff = <<TRUE, TRUE>> /\ led_counter = 0

Fresh ==
    /\ pc = 1 /\ exitst = "running"
    /\ modules = << >> /\ requests = << >> /\ periods = << >>
    /\ false_paths = << >> /\ wb_masters = << >>
    /\ acts = << >> /\ shell = << >>

Init ==
    /\ target \in Targets
    /\ args \in Args(target)
    /\ prog = Main(target, args)
    /\ Fresh
    /\ cfg \in {"absent", "complete"}
    /\ files \in {{}, Artefacts}
    /\ run = 1 /\ prev = NoOutcome
    /\ Idle

Running == exitst = "running" /\ pc <= Len(prog)
Stmt    == prog[pc]

Event(op, arg) == [op |-> op, arg |-> arg, cfg |-> cfg]

\* The elaboration state of the process.
ElabNow ==
    [modules |-> modules, requests |-> requests, periods |-> periods,
     false_paths |-> false_paths, wb_masters |-> wb_masters, error |-> "none"]

\* assert not (args.with_ethernet and args.with_etherbone)
MainAssert ==
    /\ Running /\ Stmt.op = "assert"
    /\ IF assert_main(args)
       THEN pc' = pc + 1 /\ exitst' = exitst
       ELSE pc' = pc /\ exitst' = "AssertionError"
    /\ UNCHANGED <<target, args, prog, modules, requests, periods, false_paths,
                   wb_masters, acts, shell, cfg, files, run, prev>>
    /\ UNCHANGED hwvars

\* A constructor call: Platform(...), _LED(...), BaseSoC(...), EtherboneSoC(...)
Construct ==
    /\ Running /\ Stmt.op = "construct"
    /\ LET st == Elaborate(Items(target, Stmt.arg, args), ElabNow)
       IN  /\ modules' = st.modules
           /\ requests' = st.requests
           /\ periods' = st.periods
           /\ false_paths' = st.false_paths
           /\ wb_masters' = st.wb_masters
           /\ IF st.error = "none"
              THEN pc' = pc + 1 /\ exitst' = exitst
              ELSE pc' = pc /\ exitst' = st.error
    /\ shell' = Append(shell, Event("construct", Stmt.arg))
    /\ UNCHANGED <<target, args, prog, acts, cfg, files, run, prev>>
    /\ UNCHANGED hwvars

\* load(), flash(), sim() are entered
Call ==
    /\ Running /\ Stmt.op = "call"
    /\ acts' = Append(acts, Stmt.arg)
    /\ shell' = Append(shell, Event("call", Stmt.arg))
    /\ pc' = pc + 1
    /\ UNCHANGED <<target, args, prog, exitst, modules, requests, periods,
                   false_paths, wb_masters, cfg, files, run, prev>>
    /\ UNCHANGED hwvars

\* f = open("openocd.cfg", "w"): the file exists and is empty
FileOpen ==
    /\ Running /\ Stmt.op = "open"
    /\ cfg' = "open_empty"
    /\ shell' = Append(shell, Event("open", Stmt.arg))
    /\ pc' = pc + 1
    /\ UNCHANGED <<target, args, prog, exitst, modules, requests, periods,
                   false_paths, wb_masters, acts, files, run, prev>>
    /\ UNCHANGED hwvars

\* f.write(...): the text is in the file object's buffer
FileWrite ==
    /\ Running /\ Stmt.op = "write"
    /\ cfg' = IF cfg = "open_empty" THEN "open_buffered" ELSE cfg
    /\ shell' = Append(shell, Event("write", Stmt.arg))
    /\ pc' = pc + 1
    /\ UNCHANGED <<target, args, prog, exitst, modules, requests, periods,
                   false_paths, wb_masters, acts, files, run, prev>>
    /\ UNCHANGED hwvars

\* f.close(): the buffer is flushed
FileClose ==
    /\ Running /\ Stmt.op = "close"
    /\ cfg' = CASE cfg = "open_buffered" -> "complete"
                [] cfg = "open_empty"    -> "empty"
                [] OTHER                 -> cfg
    /\ shell' = Append(shell, Event("close", Stmt.arg))
    /\ pc' = pc + 1
    /\ UNCHANGED <<target, args, prog, exitst, modules, requests, periods,
                   false_paths, wb_masters, acts, files, run, prev>>
    /\ UNCHANGED hwvars

\* os.system(...): the exit status is not looked at
System ==
    /\ Running /\ Stmt.op \in {"openocd", "rm", "cp", "bit_to_flash"}
    /\ shell' = Append(shell, Event(Stmt.op, Stmt.arg))
    /\ cfg' = IF Stmt.op = "rm" THEN "absent" ELSE cfg
    /\ files' =
         CASE Stmt.op = "cp" /\ {"bit_to_flash.py", SvfBaseSoC} \subseteq files
                -> files \cup {ScriptCopy}
           [] Stmt.op = "bit_to_flash" /\ {ScriptCopy, BitBaseSoC} \subseteq files
                -> files \cup {Stmt.arg}
           [] OTHER -> files
    /\ pc' = pc + 1
    /\ UNCHANGED <<target, args, prog, exitst, modules, requests, periods,
                   false_paths, wb_masters, acts, run, prev>>
    /\ UNCHANGED hwvars

\* print("sim")
PrintSim ==
    /\ Running /\ Stmt.op = "print"
    /\ shell' = Append(shell, Event("print", Stmt.arg))
    /\ pc' = pc + 1
    /\ UNCHANGED <<target, args, prog, exitst, modules, requests, periods,
                   false_paths, wb_masters, acts, cfg, files, run, prev>>
    /\ UNCHANGED hwvars

\* exit()
Exit ==
    /\ Running /\ Stmt.op = "exit"
    /\ exitst' = "exit"
    /\ UNCHANGED <<target, args, prog, pc, modules, requests, periods,
                   false_paths, wb_masters, acts, shell, cfg, files, run, prev>>
    /\ UNCHANGED hwvars

\* platform.build(dut)
PlatformBuild ==
    /\ Running /\ Stmt.op = "platform.build"
    /\ shell' = Append(shell, Event("platform.build", Stmt.arg))
    /\ files' = files \cup {Stmt.arg}
    /\ pc' = pc + 1
    /\ UNCHANGED <<target, args, prog, exitst, modules, requests, periods,
                   false_paths, wb_masters, acts, cfg, run, prev>>
    /\ UNCHANGED hwvars

\* builder = Builder(soc, ...); builder.build(...)
BuilderBuild ==
    /\ Running /\ Stmt.op = "Builder.build"
    /\ acts' = Append(acts, "Build")
    /\ shell' = Append(shell, Event("Builder.build", Stmt.arg))
    /\ files' = files \cup {Stmt.arg}
    /\ pc' = pc + 1
    /\ UNCHANGED <<target, args, prog, exitst, modules, requests, periods,
                   false_paths, wb_masters, cfg, run, prev>>
    /\ UNCHANGED hwvars

\* main() returns
Return ==
    /\ exitst = "running" /\ pc = Len(prog) + 1
    /\ exitst' = "returned"
    /\ UNCHANGED <<target, args, prog, pc, modules, requests, periods,
                   false_paths, wb_masters, acts, shell, cfg, files, run, prev>>
    /\ UNCHANGED hwvars

Done == exitst # "running"

\* The same command line is run again, on the files the last run left.
Reinvoke ==
    /\ Done /\ run < MaxRuns
    /\ run' = run + 1
    /\ prev' = Outcome
    /\ pc' = 1 /\ exitst' = "running"
    /\ modules' = << >> /\ requests' = << >> /\ periods' = << >>
    /\ false_paths' = << >> /\ wb_masters' = << >>
    /\ acts' = << >> /\ shell' = << >>
    /\ UNCHANGED <<target, args, prog, cfg, files>>
    /\ UNCHANGED hwvars

Next ==
    \/ MainAssert
    \/ Construct
    \/ Call
    \/ FileOpen
    \/ FileWrite
    \/ FileClose
    \/ System
    \/ PrintSim
    \/ Exit
    \/ PlatformBuild
    \/ BuilderBuild
    \/ Return
    \/ Reinvoke

Spec == Init /\ [][Next]_vars

\* ------------------------------------------------- the reset of cd_sys
\* The sources of the asynchronous reset in the simulated _CRG variant.
ResetSources == IF crg = "soc" THEN CRG_soc_reset ELSE CRG_nosoc_reset

\* The expression handed to AsyncResetSynchronizer, for pll.locked = l and
\* the button pad = r.
AsyncReset(l, r) ==
    \/ "pll.locked" \in ResetSources /\ ~l
    \/ "rst_n" \in ResetSources /\ ~r

\* cd_sys.rst, the output of the second flip-flop
sys_rst == ff[2]

\* AsyncResetSynchronizer: both flip-flops are preset while the asynchronous
\* reset is asserted, whatever the clock does
Preset(l, r) == IF AsyncReset(l, r) THEN <<TRUE, TRUE>> ELSE ff

InitCRG ==
    /\ target = "soc"
    /\ args \in {a \in Args("soc") : ~a.with_ethernet /\ ~a.with_etherbone /\ ~a.load
                                     /\ ~a.flash /\ ~a.sim /\ ~a.integrated_main_ram}
    /\ prog = Main(target, args)
    /\ Fresh
    /\ cfg = "absent" /\ files = {}
    /\ run = 1 /\ prev = NoOutcome
    /\ crg \in Targets
    /\ locked = FALSE
    /\ rst_n \in BOOLEAN
    /\ ff = <<TRUE, TRUE>>
    /\ led_counter = 0

\* The PLL reports lock.
PllLock ==
    /\ ~locked
    /\ locked' = TRUE
    /\ ff' = Preset(TRUE, rst_n)
    /\ UNCHANGED <<crg, rst_n, led_counter>>
    /\ UNCHANGED procvars

\* The PLL loses lock.
PllUnlock ==
    /\ locked
    /\ locked' = FALSE
    /\ ff' = Preset(FALSE, rst_n)
    /\ UNCHANGED <<crg, rst_n, led_counter>>
    /\ UNCHANGED procvars

\* The button is pressed (the pad is active low).
ButtonPress ==
    /\ rst_n
    /\ rst_n' = FALSE
    /\ ff' = Preset(locked, FALSE)
    /\ UNCHANGED <<crg, locked, led_counter>>
    /\ UNCHANGED procvars

\* The button is released.
ButtonRelease ==
    /\ ~rst_n
    /\ rst_n' = TRUE
    /\ ff' = Preset(locked, TRUE)
    /\ UNCHANGED <<crg, locked, led_counter>>
    /\ UNCHANGED procvars

\* A rising edge of the sys clock: the synchroniser shifts a 0 in unless it
\* is preset; the blinker's counter, in the sys domain, counts or is reset.
Tick ==
    /\ ff' = IF AsyncReset(locked, rst_n) THEN <<TRUE, TRUE>> ELSE <<FALSE, ff[1]>>
    /\ led_counter' = IF sys_rst THEN 0
                      ELSE (led_counter + 1) % Pow2(LedCounterBits)
    /\ UNCHANGED <<crg, locked, rst_n>>
    /\ UNCHANGED procvars

NextCRG ==
    \/ PllLock
    \/ PllUnlock
    \/ ButtonPress
    \/ ButtonRelease
    \/ Tick

SpecCRG == InitCRG /\ [][NextCRG]_vars

\* ---------------------------------------------------------------- claims
Pos(seq, x) == {i \in 1..Len(seq) : seq[i] = x}
Count(seq, x) == Cardinality(Pos(seq, x))

\* The function entered last before event i ("none" in main).
LastCall(i) ==
    LET cs == {k \in 1..(i - 1) : shell[k].op = "call"}
    IN  IF cs = {} THEN "none"
        ELSE shell[CHOOSE k \in cs : \A m \in cs : m <= k].arg

Exited == exitst \in {"returned", "exit"}
Failed == exitst \in {"AssertionError", "ResourceUnavailable"}

\* A SoC class has been constructed without an exception.
Composed ==
    /\ ~Failed
    /\ \E i \in 1..Len(shell) :
          shell[i].op = "construct" /\ shell[i].arg \in {"BaseSoC", "EtherboneSoC"}

Conflict == target = "soc" /\ args.with_ethernet /\ args.with_etherbone
NetworkEnabled == args.with_ethernet \/ args.with_etherbone
MemoryEnabled == target = "soc" /\ ~args.integrated_main_ram

\* C1: with both --with-ethernet and --with-etherbone the invocation is
\* rejected by the assert before anything is instantiated: no module, no
\* platform request, no constraint, no bus master, no load/flash/sim action
\* and no file or shell operation; it ends in the assertion error, and so
\* does the same invocation run again.
C1_ConflictRejected ==
    Conflict =>
        /\ modules = << >> /\ requests = << >> /\ periods = << >>
        /\ false_paths = << >> /\ wb_masters = << >>
        /\ acts = << >> /\ shell = << >>
        /\ (Done => exitst = "AssertionError")
        /\ (run > 1 => prev.exitst = "AssertionError")
        /\ (run > 1 /\ Done => Outcome = prev)

C1_Witness == Conflict /\ Done /\ run = 2 /\ args.load /\ args.flash /\ args.sim

\* Event i is the programmer invocation of a Loading action.
IsLoadOpenocd(i) == shell[i].op = "openocd" /\ LastCall(i) = "Load"

\* The actions main() of colorlight_5a_75b.py starts for its flags.
RequestedSoC ==
    (IF args.load THEN <<"Load">> ELSE << >>)
    \o (IF args.flash THEN <<"Flash">> ELSE << >>)
    \o (IF args.sim THEN <<"Sim">> ELSE << >>)

\* C2 as stated: once Loading has invoked the programmer nothing else is
\* started: no Flashing, no Simulating, no construction, no build.
C2_NothingAfterLoad ==
    \A i \in 1..Len(shell) : \A j \in 1..Len(shell) :
        (i < j /\ IsLoadOpenocd(i)) =>
            shell[j].op \notin {"call", "construct", "Builder.build", "platform.build"}

\* C2 amended: after Loading has invoked the programmer no construction and
\* no build step runs in either script; in colorlight_5a_75b_no_soc.py the
\* process exits there and nothing at all follows; in colorlight_5a_75b.py
\* load() returns to main(), and Flashing and Simulating are still started
\* after it when --flash and --sim are set.
C2_NoBuildAfterLoad ==
    /\ \A i \in 1..Len(shell) : \A j \in 1..Len(shell) :
          (i < j /\ IsLoadOpenocd(i)) =>
              /\ shell[j].op \notin {"construct", "Builder.build", "platform.build"}
              /\ target = "soc"
    /\ (target = "no_soc" /\ args.load /\ Done) =>
          /\ exitst = "exit" /\ acts = <<"Load">> /\ modules = << >>
          /\ IsLoadOpenocd(Len(shell))
    /\ (target = "soc" /\ Exited) => acts = RequestedSoC

C2_Witness ==
    /\ target = "no_soc" /\ args.load /\ args.sim /\ args.no_soc /\ Done
    /\ IsLoadOpenocd(Len(shell))

\* What the controller is said to start: Load, Flash, Simulate in that order
\* for the flags set, and Build when none of them is set.
Requested ==
    RequestedSoC
    \o (IF ~args.load /\ ~args.flash /\ ~args.sim THEN <<"Build">> ELSE << >>)

\* C3: when the process has ended normally, the actions started are the
\* requested ones in the order Load, Flash, Simulate, and Building ran if and
\* only if none of the three flags was set.
C3_PriorityThenDefaultBuild ==
    Exited => acts = Requested

\* C4: whenever the programmer is invoked, openocd.cfg was opened, written
\* and closed just before and is complete on disk; in flash() the script was
\* copied and run before that and the programmer gets top.svf.flash, while
\* load() hands it top.svf.
C4_CfgClosedBeforeProgrammer ==
    \A i \in 1..Len(shell) :
        shell[i].op = "openocd" =>
            /\ shell[i].cfg = "complete"
            /\ i > 3
            /\ shell[i - 3].op = "open"
            /\ shell[i - 2].op = "write"
            /\ shell[i - 1].op = "close"
            /\ LastCall(i) \in {"Load", "Flash"}
            /\ LastCall(i) = "Load" => shell[i].arg \in {SvfBaseSoC, SvfEtherbone}
            /\ LastCall(i) = "Flash" =>
                  /\ shell[i].arg = FlashBaseSoC
                  /\ i > 5
                  /\ shell[i - 5].op = "cp"
                  /\ shell[i - 4].op = "bit_to_flash"

C4_Witness ==
    /\ Done /\ args.load /\ args.flash
    /\ \E i \in 1..Len(shell) : shell[i].op = "openocd" /\ LastCall(i) = "Flash"
    /\ \E i \in 1..Len(shell) : IsLoadOpenocd(i)

\* C5 as stated: openocd.cfg is gone after Flashing and is still there after
\* a Loading that no Flashing followed.
C5_DeletedByFlashOnly ==
    Exited =>
        /\ "Flash" \in Range(acts) => cfg = "absent"
        /\ ("Load" \in Range(acts) /\ "Flash" \notin Range(acts)) => cfg = "complete"

\* C5 amended: openocd.cfg is deleted after the programmer invocation on
\* every path through openocd_run_svf, that is after Loading as well as after
\* Flashing in colorlight_5a_75b.py; only the Loading of
\* colorlight_5a_75b_no_soc.py leaves the file it wrote in place.
C5_DeletedByRunSvf ==
    Exited =>
        /\ (target = "soc" /\ ("Load" \in Range(acts) \/ "Flash" \in Range(acts)))
              => cfg = "absent"
        /\ (target = "no_soc" /\ "Load" \in Range(acts)) => cfg = "complete"

C5_Witness ==
    /\ Exited /\ target = "soc" /\ acts = <<"Load">> /\ cfg = "absent"

NoSocCase == target = "no_soc" /\ args.no_soc /\ ~args.load /\ ~args.sim

\* C6: with --no-soc and neither --load nor --sim, only the platform and the
\* status blinker are instantiated, whatever --with-etherbone and --eth-phy
\* are: no CRG, memory controller, PHY, stack or SoC, no constraint, no bus
\* master; the blinker is handed to platform.build and the process exits
\* without running the SoC builder.
C6_NoSocOnlyBlinker ==
    NoSocCase =>
        /\ Range(modules) \subseteq {"Platform", "_LED"}
        /\ Range(requests) \subseteq {<<"user_led_n", 0>>, <<"hub75", 0>>}
        /\ periods = << >> /\ false_paths = << >> /\ wb_masters = << >>
        /\ acts = << >>
        /\ \A i \in 1..Len(shell) : shell[i].op # "Builder.build"
        /\ Done =>
              /\ exitst = "exit"
              /\ modules = <<"Platform", "_LED">>
              /\ shell[Len(shell)].op = "platform.build"

C6_Witness ==
    NoSocCase /\ Done /\ args.with_etherbone /\ args.eth_phy = 1

\* C7 as stated: after composition there is exactly one period constraint for
\* the primary clock, one each for eth_rx and eth_tx iff a network feature is
\* enabled, and one for the phase-shifted memory clock iff the memory
\* controller is enabled.
C7_PeriodPerDomain ==
    Composed =>
        /\ Count(periods, "clk25") = 1
        /\ Count(periods, "eth_rx") = (IF NetworkEnabled THEN 1 ELSE 0)
        /\ Count(periods, "eth_tx") = (IF NetworkEnabled THEN 1 ELSE 0)
        /\ Cardinality({i \in 1..Len(periods) :
                           periods[i] \notin {"clk25", "eth_rx", "eth_tx"}})
              = (IF MemoryEnabled THEN 1 ELSE 0)

\* C7 amended: after composition there is exactly one period constraint for
\* the primary (clk25) clock, one each for eth_rx and eth_tx iff a network
\* feature is enabled, and no other: the phase-shifted memory clock gets no
\* period constraint, whether the memory controller is enabled or not.
C7_PeriodPerInputClock ==
    Composed =>
        /\ Count(periods, "clk25") = 1
        /\ Count(periods, "eth_rx") = (IF NetworkEnabled THEN 1 ELSE 0)
        /\ Count(periods, "eth_tx") = (IF NetworkEnabled THEN 1 ELSE 0)
        /\ Len(periods) = (IF NetworkEnabled THEN 3 ELSE 1)

C7_Witness ==
    /\ Composed /\ MemoryEnabled /\ args.with_ethernet
    /\ "GENSDRPHY" \in Range(modules) /\ Len(periods) = 3

EtherboneOnly == args.with_etherbone /\ ~args.with_ethernet

\* C8: with etherbone enabled and ethernet disabled composition raises
\* nothing and registers the period constraints clk25, eth_rx, eth_tx in that
\* order, a false path that joins the sys clock with eth_rx and with eth_tx,
\* and exactly one bus master, the Etherbone bridge's bus; composing the same
\* configuration again gives the same constraints and the same masters.
C8_EtherboneComposition ==
    EtherboneOnly =>
        /\ ~Failed
        /\ Composed =>
              /\ periods = <<"clk25", "eth_rx", "eth_tx">>
              /\ \E k \in 1..Len(false_paths) :
                    {"sys", "eth_rx", "eth_tx"} \subseteq Range(false_paths[k])
              /\ wb_masters = <<"etherbone.wishbone.bus">>
              /\ run > 1 =>
                    /\ prev.periods = periods
                    /\ prev.false_paths = false_paths
                    /\ prev.wb_masters = wb_masters

C8_Witness ==
    /\ EtherboneOnly /\ Composed /\ Done /\ run = 2
    /\ target = "no_soc" /\ args.eth_phy = 1

\* C9: in both _CRG variants cd_sys.rst is asserted in every state in which
\* the PLL is not locked, and the blinker's counter advances only while the
\* PLL is locked and the reset is released; in the no_soc variant the reset
\* is also asserted while the button is pressed; in the soc variant the
\* button does not touch the reset, which follows pll.locked alone.
C9_ResetUntilLock ==
    /\ [](~locked => sys_rst)
    /\ []((crg = "no_soc" /\ ~rst_n) => sys_rst)
    /\ [][(led_counter' # led_counter /\ led_counter' # 0) => (locked /\ ~sys_rst)]_vars
    /\ [][(crg = "soc" /\ locked' = locked /\ rst_n' # rst_n) => ff' = ff]_vars

C9_Witness ==
    crg = "soc" /\ locked /\ ~rst_n /\ ~sys_rst /\ led_counter = 2

\* C10: in one composition pass no (name, index) pair is requested from the
\* platform twice, and no request is refused.
C10_NoDoubleRequest ==
    /\ \A i \in 1..Len(requests) : \A j \in 1..Len(requests) :
          i # j => requests[i] # requests[j]
    /\ exitst # "ResourceUnavailable"

C10_Witness ==
    /\ Composed /\ target = "soc" /\ args.with_etherbone /\ MemoryEnabled
    /\ Len(requests) = 8

====
